---- MODULE Spec2Model ----
(***************************************************************************)
(* Insurance reminder workflow: deduplication, due-date classification and *)
(* the notification check, modelled from the Python sources.               *)
(*                                                                         *)
(* Conventions.  An optional date (Optional[date], a DATE column) is a     *)
(* sequence: None is <<>> and the calendar date 2024-06-01 + d days is     *)
(* <<d>>.  A string that the code inspects character by character (a      *)
(* phone number) is a sequence of one-character strings.                   *)
(***************************************************************************)
EXTENDS Integers, Sequences, FiniteSets, TLC

\* Longest list of records handed to an operation.
MaxLen == 3

\* Python None, SQL NULL, pandas NaN.
None == <<>>

\* The calendar date 2024-06-01 + d days.
Date(d) == <<d>>

\* Day number of a date that is set.
Day(x) == x[1]

\* Python truthiness of an optional date / a string.
IsSet(x) == x /= <<>>

(***************************************************************************)
(* Sample values of the record fields.                                     *)
(***************************************************************************)
\* full_name cells; "" is the empty / missing name.
DedupeNames == {"", "Ana"}

\* due_day values the deduplication sites are fed with.
DedupeDueDays == {None, Date(9)}

PolicyNumbers == {"P1", "P2"}

\* A mobile number the validator accepts and a text it rejects.
GoodPhone == <<"0", "8", "8", "8", "1", "2", "3">>
BadPhone == <<"0", "8", "x">>
DedupePhones == {GoodPhone, BadPhone}

DedupeRecords ==
    [full_name : DedupeNames, due_day : DedupeDueDays, notice : {None},
     policy_number : PolicyNumbers, cell_phone : DedupePhones]

\* All sequences over S of length at most n.
SeqUpTo(S, n) == UNION {[1..k -> S] : k \in 0..n}

(***************************************************************************)
(* str(date): date.__str__ is isoformat(), str(None) is 'None'.            *)
(***************************************************************************)
str(d) ==
    IF d = None THEN "None"
    ELSE "2024-06-" \o (IF Day(d) + 1 < 10 THEN "0" ELSE "") \o ToString(Day(d) + 1)

(***************************************************************************)
(* NotificationService.deduplicate_users                                   *)
(***************************************************************************)
\* Mutant: nothing is dropped.
deduplicate_users_keep_all(us) == us

RECURSIVE deduplicate_users_loop(_, _, _, _)
deduplicate_users_loop(us, i, seen, unique_users) ==
    IF i > Len(us) THEN unique_users
    ELSE LET user == us[i]
             key == <<user.full_name, str(user.due_day), user.policy_number>>
         IN  IF key \notin seen
             THEN deduplicate_users_loop(us, i + 1, seen \cup {key},
                                         Append(unique_users, user))
             ELSE deduplicate_users_loop(us, i + 1, seen, unique_users)

\* Mutant: the key leaves out policy_number.
RECURSIVE deduplicate_users_no_policy_loop(_, _, _, _)
deduplicate_users_no_policy_loop(us, i, seen, unique_users) ==
    IF i > Len(us) THEN unique_users
    ELSE LET user == us[i]
             key == <<user.full_name, str(user.due_day)>>
         IN  IF key \notin seen
             THEN deduplicate_users_no_policy_loop(us, i + 1, seen \cup {key},
                                                   Append(unique_users, user))
             ELSE deduplicate_users_no_policy_loop(us, i + 1, seen, unique_users)

deduplicate_users_no_policy(us) == deduplicate_users_no_policy_loop(us, 1, {}, <<>>)

\* Mutant: the loop starts at the second record.
deduplicate_users_skip_first(us) == deduplicate_users_loop(us, 2, {}, <<>>)

deduplicate_users(us) == deduplicate_users_loop(us, 1, {}, <<>>)

(***************************************************************************)
(* app/utils/display.py deduplicate_users                                  *)
(***************************************************************************)
RECURSIVE display_deduplicate_users_loop(_, _, _, _)
display_deduplicate_users_loop(us, i, seen, unique_users) ==
    IF i > Len(us) THEN unique_users
    ELSE LET user == us[i]
             key == <<user.full_name, str(user.due_day), user.policy_number>>
         IN  IF key \notin seen
             THEN display_deduplicate_users_loop(us, i + 1, seen \cup {key},
                                                 Append(unique_users, user))
             ELSE display_deduplicate_users_loop(us, i + 1, seen, unique_users)

\* Mutant: the display site keys on the name and the due date only.
display_deduplicate_users_no_policy(us) == deduplicate_users_no_policy_loop(us, 1, {}, <<>>)

display_deduplicate_users(us) == display_deduplicate_users_loop(us, 1, {}, <<>>)

(***************************************************************************)
(* tests/test_users.py deduplicate_users, on User objects (the hasattr     *)
(* branch): the key is (full_name, str(due_day)) only.                     *)
(***************************************************************************)
RECURSIVE test_deduplicate_users_loop(_, _, _, _)
test_deduplicate_users_loop(us, i, seen, unique_users) ==
    IF i > Len(us) THEN unique_users
    ELSE LET user == us[i]
             key == <<user.full_name, str(user.due_day)>>
         IN  IF key \notin seen
             THEN test_deduplicate_users_loop(us, i + 1, seen \cup {key},
                                              Append(unique_users, user))
             ELSE test_deduplicate_users_loop(us, i + 1, seen, unique_users)

test_deduplicate_users(us) == test_deduplicate_users_loop(us, 1, {}, <<>>)

(***************************************************************************)
(* Validator.validate_phone_number                                         *)
(***************************************************************************)
Digits == {"0", "1", "2", "3", "4", "5", "6", "7", "8", "9"}

\* re.sub(r'[\s\-\(\)\.]', '', phone_str)
Separators == {" ", "-", "(", ")", "."}

RECURSIVE StripChars(_, _)
StripChars(s, drop) ==
    IF s = <<>> THEN <<>>
    ELSE IF Head(s) \in drop THEN StripChars(Tail(s), drop)
         ELSE <<Head(s)>> \o StripChars(Tail(s), drop)

\* re.match(r'^\+?[0-9]{7,15}$', cleaned_phone)
MatchesPhonePattern(s) ==
    LET digits == IF s /= <<>> /\ Head(s) = "+" THEN Tail(s) ELSE s
    IN  /\ Len(digits) >= 7
        /\ Len(digits) <= 15
        /\ \A k \in 1..Len(digits) : digits[k] \in Digits

validate_phone_number(phone) ==
    IF phone = <<>> \/ StripChars(phone, {" "}) = <<>> THEN TRUE
    ELSE IF StripChars(phone, {" "}) = <<"*">> THEN TRUE
    ELSE MatchesPhonePattern(StripChars(phone, Separators))

(***************************************************************************)
(* validate_user_data / validate_user_model / BaseModel.from_dict for User *)
(***************************************************************************)
\* Validator.validate_positive_integer on an int.
validate_positive_integer(value) == value >= 0

\* data.get(field) is None, which is allowed, when the model leaves the
\* field out of the record.
NumberOk(data, field) ==
    field \notin DOMAIN data \/ validate_positive_integer(data[field])

validate_user_data(data) ==
    IF /\ validate_phone_number(data.cell_phone)
       /\ NumberOk(data, "amount")
       /\ NumberOk(data, "installments")
    THEN [status |-> "ok", data |-> data]
    ELSE [status |-> "ValidationError", data |-> data]

\* convert_date: a date stays, None and '' become None.
convert_date(value) == value

validate_user_model(user_data) ==
    LET validated == validate_user_data(user_data)
    IN  IF validated.status /= "ok" THEN validated
        ELSE [status |-> "ok",
              data |-> [validated.data EXCEPT
                           !.notice = convert_date(@),
                           !.due_day = convert_date(@)]]

from_dict(data) == validate_user_model(data)

(***************************************************************************)
(* date_helpers.parse_date on a cell that holds a date or is empty.        *)
(***************************************************************************)
\* A cell whose text no format parses (strptime raises ValueError).
Unparseable == <<0, 0>>

\* Mutant: text that does not parse is returned as it is.
parse_date_keep_text(date_input) == date_input

parse_date(date_input) ==
    IF date_input = None \/ Len(date_input) /= 1 THEN None ELSE date_input

(***************************************************************************)
(* Numeric cells of the sheet: empty (NaN), an integer, or text.           *)
(***************************************************************************)
NaN == [kind |-> "nan", val |-> 0]
Num(n) == [kind |-> "int", val |-> n]
Text == [kind |-> "str", val |-> 0]

\* int(row[col]) if pd.notna(row[col]) else 0, and 0 on ValueError/TypeError
int_or_zero(cell) == IF cell.kind = "int" THEN cell.val ELSE 0

(***************************************************************************)
(* ExcelService.get_users: one pass over the rows.                         *)
(***************************************************************************)
RECURSIVE get_users_loop(_, _, _, _, _)
get_users_loop(rows, i, us, seen_records, duplicate_count) ==
    IF i > Len(rows)
    THEN [status |-> "ok", users |-> us, duplicate_count |-> duplicate_count]
    ELSE LET row == rows[i]
             full_name == row.full_name
             due_day == parse_date(row.due_day)
             policy_number == row.policy_number
             record_key == <<full_name, str(due_day), policy_number>>
             user_data == IF "amount" \in DOMAIN row
                          THEN [full_name |-> full_name,
                                cell_phone |-> row.cell_phone,
                                notice |-> parse_date(row.notice),
                                due_day |-> due_day,
                                amount |-> int_or_zero(row.amount),
                                installments |-> int_or_zero(row.installments),
                                policy_number |-> policy_number]
                          ELSE [full_name |-> full_name,
                                cell_phone |-> row.cell_phone,
                                notice |-> parse_date(row.notice),
                                due_day |-> due_day,
                                policy_number |-> policy_number]
             made == from_dict(user_data)
         IN  IF full_name = "" \/ ~IsSet(due_day)
             THEN get_users_loop(rows, i + 1, us, seen_records, duplicate_count)
             ELSE IF record_key \in seen_records
             THEN get_users_loop(rows, i + 1, us, seen_records, duplicate_count + 1)
             ELSE IF made.status /= "ok"
             THEN [status |-> "DataImportError", users |-> <<>>,
                   duplicate_count |-> duplicate_count]
             ELSE get_users_loop(rows, i + 1, Append(us, made.data),
                                 seen_records \cup {record_key}, duplicate_count)

\* Mutant: duplicates are skipped without being counted.
get_users_uncounted(rows) ==
    [get_users_loop(rows, 1, <<>>, {}, 0) EXCEPT !.duplicate_count = 0]

get_users(rows) == get_users_loop(rows, 1, <<>>, {}, 0)

(***************************************************************************)
(* InsuranceService.sort_by_date: sorted(self.users, key=get_date), a      *)
(* stable sort; a record without the date sorts as datetime.max.date().    *)
(***************************************************************************)
max_date == Date(9999)

get_date(user, date_field) ==
    LET value == IF date_field = "due_day" THEN user.due_day ELSE user.notice
    IN  IF IsSet(value) THEN value ELSE max_date

\* Insert x behind every element whose key is not greater (stability).
RECURSIVE InsertSorted(_, _, _)
InsertSorted(sorted, x, date_field) ==
    IF sorted = <<>> THEN <<x>>
    ELSE IF Day(get_date(x, date_field)) < Day(get_date(Head(sorted), date_field))
         THEN <<x>> \o sorted
         ELSE <<Head(sorted)>> \o InsertSorted(Tail(sorted), x, date_field)

RECURSIVE sorted_loop(_, _, _, _)
sorted_loop(us, i, acc, date_field) ==
    IF i > Len(us) THEN acc
    ELSE sorted_loop(us, i + 1, InsertSorted(acc, us[i], date_field), date_field)

sort_by_date(us, date_field) == sorted_loop(us, 1, <<>>, date_field)

(***************************************************************************)
(* The users table (MySQL) and the queries of UserRepository.              *)
(***************************************************************************)
\* Most rows the table holds.
MaxRows == 2

\* Largest "days ahead" argument.
MaxDays == 1

\* The dates a DATE column holds in the model: the day before date.today(),
\* that day and the day after; NULL besides.
Dates == {Date(0), Date(1), Date(2)}

OptDates == {None} \cup Dates

\* date + timedelta(days=n)
PlusDays(date, n) == Date(Day(date) + n)

\* x BETWEEN lo AND hi; a NULL operand makes the comparison unknown, and a
\* row is selected only when the WHERE clause is true.
SqlBetween(x, lo, hi) == IsSet(x) /\ Day(lo) <= Day(x) /\ Day(x) <= Day(hi)

\* x = y in SQL: never true when an operand is NULL.
SqlEq(x, y) == IsSet(x) /\ IsSet(y) /\ x = y

\* x < y in SQL.
SqlLess(x, y) == IsSet(x) /\ IsSet(y) /\ Day(x) < Day(y)

\* The stored row made of a user's fields and the AUTO_INCREMENT id.
Row(user, id) ==
    [id |-> id, full_name |-> user.full_name, due_day |-> user.due_day,
     notice |-> user.notice, policy_number |-> user.policy_number,
     cell_phone |-> user.cell_phone]

Rows(tbl) == {tbl[k] : k \in 1..Len(tbl)}

\* ORDER BY due_day ASC: MySQL puts NULL first; the order of rows with
\* equal due_day is not specified.
OrderKey(r) == IF IsSet(r.due_day) THEN Day(r.due_day) ELSE -1

OrderedByDueDay(S) ==
    {s \in [1..Cardinality(S) -> S] :
        /\ \A i, j \in 1..Cardinality(S) : i /= j => s[i] /= s[j]
        /\ \A i, j \in 1..Cardinality(S) : i < j => OrderKey(s[i]) <= OrderKey(s[j])}

\* BaseRepository.get_by_query: every fetched row goes through from_dict.
get_by_query(fetched) ==
    IF \E k \in 1..Len(fetched) : from_dict(fetched[k]).status /= "ok"
    THEN [status |-> "ValidationError", users |-> <<>>]
    ELSE [status |-> "ok", users |-> [k \in 1..Len(fetched) |-> from_dict(fetched[k]).data]]

\* UserRepository.get_due_soon, the WHERE clause.
due_soon_where(r, today_, end_date) ==
    \/ (IsSet(r.notice) /\ SqlBetween(r.notice, today_, end_date))
    \/ (IsSet(r.due_day) /\ SqlBetween(r.due_day, today_, end_date))

\* Mutant: a policy whose due date has passed counts as due soon.
get_due_soon_or_past(tbl, today_, days) ==
    {r \in Rows(tbl) :
        \/ due_soon_where(r, today_, PlusDays(today_, days))
        \/ SqlLess(r.due_day, today_)}

\* Mutant: only the due date is looked at.
get_due_soon_by_due_day(tbl, today_, days) ==
    {r \in Rows(tbl) : SqlBetween(r.due_day, today_, PlusDays(today_, days))}

\* UserRepository.get_due_soon: the rows selected, before ORDER BY.
get_due_soon(tbl, today_, days) ==
    {r \in Rows(tbl) : due_soon_where(r, today_, PlusDays(today_, days))}

\* Mutant: a missing due date counts as a date that has passed.
get_overdue_or_absent(tbl, today_) ==
    {r \in Rows(tbl) : ~IsSet(r.due_day) \/ SqlLess(r.due_day, today_)}

\* Mutant: a policy due today counts as overdue.
get_overdue_inclusive(tbl, today_) ==
    {r \in Rows(tbl) : IsSet(r.due_day) /\ Day(r.due_day) <= Day(today_)}

\* UserRepository.get_overdue: the rows selected, before ORDER BY.
get_overdue(tbl, today_) ==
    {r \in Rows(tbl) : IsSet(r.due_day) /\ SqlLess(r.due_day, today_)}

\* UserRepository.get_upcoming_insurance_users: the rows selected.
get_upcoming_insurance_users(tbl, start_date, end_date, notice_date) ==
    {r \in Rows(tbl) :
        SqlBetween(r.due_day, start_date, end_date) \/ SqlEq(r.notice, notice_date)}

\* Mutant: the check of BaseRepository, which finds no duplicate.
check_duplicate_never(tbl, user) == FALSE

\* UserRepository.check_duplicate: COUNT(*) ... WHERE full_name = %s AND
\* due_day = %s AND policy_number = %s, > 0.
check_duplicate(tbl, user) ==
    \E r \in Rows(tbl) :
        /\ r.full_name = user.full_name
        /\ SqlEq(r.due_day, user.due_day)
        /\ r.policy_number = user.policy_number

\* UNIQUE KEY unique_insurance_policy (full_name, due_day, policy_number):
\* rows with a NULL in the key never collide.
violates_unique_key(tbl, user) ==
    \E r \in Rows(tbl) :
        /\ r.full_name = user.full_name
        /\ SqlEq(r.due_day, user.due_day)
        /\ r.policy_number = user.policy_number

(***************************************************************************)
(* NotificationService: message choice, phone normalisation, sending.      *)
(***************************************************************************)
\* Mutant: the due-today message takes priority over the reminder.
message_for_due_first(user, today_) ==
    IF user.due_day = today_ THEN "due_today"
    ELSE IF user.notice = today_ THEN "upcoming"
    ELSE "none"

\* check_upcoming_insurance, the message chosen for one user: "upcoming" is
\* the 'will be due on' reminder, "due_today" the 'is due TODAY' message,
\* "none" is message = None.
message_for(user, today_) ==
    IF user.notice = today_ THEN "upcoming"
    ELSE IF user.due_day = today_ THEN "due_today"
    ELSE "none"

\* Mutant: a local number keeps its leading 0 behind the plus sign.
normalize_phone_no_country_code(phone) ==
    IF phone = <<>> THEN <<>>
    ELSE LET cleaned == SelectSeq(phone, LAMBDA c : c \in Digits \/ c = "+")
         IN  IF cleaned /= <<>> /\ Head(cleaned) = "+" THEN cleaned
             ELSE <<"+">> \o cleaned

\* NotificationService.normalize_phone
normalize_phone(phone) ==
    IF phone = <<>> THEN <<>>
    ELSE LET cleaned == SelectSeq(phone, LAMBDA c : c \in Digits \/ c = "+")
         IN  IF cleaned /= <<>> /\ Head(cleaned) = "+" THEN cleaned
             ELSE IF cleaned /= <<>> /\ Head(cleaned) = "0"
                  THEN <<"+", "3", "5", "9">> \o Tail(cleaned)
                  ELSE <<"+">> \o cleaned

\* TEST_PHONE of config/settings.py, as the environment sets it.
TEST_PHONE == <<"0", "8", "8", "8", "0", "0", "0">>

\* NotificationService.send_message: "id" is a message id, "None" the None
\* return, "NotificationError" the exception; gateway_ok is whether
\* viber.send_messages succeeds.
send_message(viber_, test_mode_, to_number, gateway_ok) ==
    IF ~viber_ THEN (IF test_mode_ THEN "id" ELSE "None")
    ELSE LET n == normalize_phone(to_number)
         IN  IF n = <<>> \/ n = <<"*">> \/ Len(n) < 10 THEN "None"
             ELSE IF gateway_ok THEN "id" ELSE "NotificationError"

(***************************************************************************)
(* State.                                                                  *)
(***************************************************************************)
VARIABLES
    users,          \* a list of records in memory: the list handed to a
                    \* deduplication site or to sort_by_date, the rows of the
                    \* spreadsheet, upcoming_users of the notification check
    pc,             \* where the run is
    site,           \* the deduplication site (or sort field) that ran
    status,         \* how the last call ended: "ok", insert's outcome, or
                    \* the exception raised
    unique_users,   \* the list a deduplication site returned
    duplicate_count,\* duplicates the site counted (get_users), or
                    \* len(input) - len(unique) as the callers log it
    again,          \* the list returned by the site applied to unique_users
    sorted_users,   \* the list sort_by_date returned
    table,          \* the rows of the users table, in insertion order
    today,          \* date.today()
    runs,           \* the batch runs that insert into the table: for each, its
                    \* list of records, the position of its loop, its place in
                    \* insert and what its insert calls returned
    ran,            \* the repository queries that have returned
    days_ahead,     \* the days argument of the last get_due_soon / check
    due_soon,       \* the list get_due_soon returned
    overdue,        \* the list get_overdue returned
    ns_today,       \* NotificationService.today
    test_mode,      \* NotificationService.test_mode
    viber,          \* whether NotificationService.viber is a client
    idx,            \* position of a loop over unique_users: the notification
                    \* loop, the insert loop of main
    messages_sent_count, \* messages_sent_count of check_upcoming_insurance
    sends,          \* the send_message calls made, in order
    main_pc,        \* where main() is
    args,           \* the parsed command line: sms and prod
    db_service,     \* db_service of main: "None", or the connection's state
    closes,         \* how many times the connection was closed
    exit_code,      \* the exit code of the process, -1 while it runs
    raised,         \* the exceptions raised so far, each wrapping the one before
    query_today,    \* the local today of get_due_soon and of get_overdue
    call            \* a function applied on its own: its arguments, what it
                    \* made on the way and its result

vars == <<users, pc, site, status, unique_users, duplicate_count, again,
          sorted_users, table, today, runs, ran, days_ahead, due_soon, overdue,
          ns_today, test_mode, viber, idx, messages_sent_count, sends,
          main_pc, args, db_service, closes, exit_code, raised, query_today, call>>

listvars == <<site, duplicate_count, again, sorted_users>>
dbvars == <<table, today, runs>>
queryvars == <<ran, days_ahead, due_soon, overdue>>
notifyvars == <<ns_today, test_mode, viber, idx, messages_sent_count, sends>>
mainvars == <<main_pc, args, db_service, closes, exit_code, raised, query_today, call>>

\* Nothing has been listed, stored, queried or sent yet.
ListsIdle ==
    /\ site = "none" /\ duplicate_count = 0 /\ again = <<>> /\ sorted_users = <<>>
StorageEmpty == table = <<>> /\ today = Date(1) /\ runs = <<>>
QueriesIdle == ran = {} /\ days_ahead = 0 /\ due_soon = <<>> /\ overdue = <<>>
NotifyIdle ==
    /\ ns_today = None /\ test_mode = TRUE /\ viber = FALSE
    /\ idx = 0 /\ messages_sent_count = 0 /\ sends = <<>>
\* parse_arguments(): --sms and --prod are store_true flags.
Args == [sms : BOOLEAN, prod : BOOLEAN]

NoCall == [op |-> "none", args |-> <<>>, made |-> <<>>, result |-> <<>>]
NoQueryToday == [get_due_soon |-> None, get_overdue |-> None]
MainIdle ==
    /\ main_pc = "none" /\ args = [sms |-> FALSE, prod |-> FALSE]
    /\ db_service = "None" /\ closes = 0 /\ exit_code = -1 /\ raised = <<>>
    /\ query_today = NoQueryToday /\ call = NoCall

(***************************************************************************)
(* The deduplication sites, each applied to a list in memory.              *)
(***************************************************************************)
DedupeInit ==
    /\ users \in SeqUpTo(DedupeRecords, MaxLen)
    /\ pc = "start"
    /\ status = "none"
    /\ unique_users = <<>>
    /\ ListsIdle /\ StorageEmpty /\ QueriesIdle /\ NotifyIdle /\ MainIdle

\* check_upcoming_insurance, notification_service.py:224 and :229
NotificationDedupe ==
    /\ pc = "start"
    /\ pc' = "deduped"
    /\ site' = "notification"
    /\ status' = "ok"
    /\ unique_users' = deduplicate_users(users)
    /\ duplicate_count' = Len(users) - Len(deduplicate_users(users))
    /\ UNCHANGED <<mainvars, users, again, sorted_users, dbvars, queryvars, notifyvars>>

\* display_user_info, display.py:54-58
DisplayDedupe ==
    /\ pc = "start"
    /\ pc' = "deduped"
    /\ site' = "display"
    /\ status' = "ok"
    /\ unique_users' = display_deduplicate_users(users)
    /\ duplicate_count' = Len(users) - Len(display_deduplicate_users(users))
    /\ UNCHANGED <<mainvars, users, again, sorted_users, dbvars, queryvars, notifyvars>>

\* tests/test_users.py deduplicate_users
TestDedupe ==
    /\ pc = "start"
    /\ pc' = "deduped"
    /\ site' = "test"
    /\ status' = "ok"
    /\ unique_users' = test_deduplicate_users(users)
    /\ duplicate_count' = Len(users) - Len(test_deduplicate_users(users))
    /\ UNCHANGED <<mainvars, users, again, sorted_users, dbvars, queryvars, notifyvars>>

\* ExcelService.get_users over the rows
ExcelGetUsers ==
    /\ pc = "start"
    /\ pc' = "deduped"
    /\ site' = "excel"
    /\ LET r == get_users(users)
       IN  /\ status' = r.status
           /\ unique_users' = r.users
           /\ duplicate_count' = r.duplicate_count
    /\ UNCHANGED <<mainvars, users, again, sorted_users, dbvars, queryvars, notifyvars>>

\* The same site applied to the list it returned.
DedupeAgain ==
    /\ pc = "deduped"
    /\ status = "ok"
    /\ pc' = "again"
    /\ again' = CASE site = "notification" -> deduplicate_users(unique_users)
                  [] site = "display" -> display_deduplicate_users(unique_users)
                  [] site = "test" -> test_deduplicate_users(unique_users)
                  [] site = "excel" -> get_users(unique_users).users
    /\ UNCHANGED <<mainvars, users, site, status, unique_users, duplicate_count,
                   sorted_users, dbvars, queryvars, notifyvars>>

DedupeNext ==
    \/ NotificationDedupe
    \/ DisplayDedupe
    \/ TestDedupe
    \/ ExcelGetUsers
    \/ DedupeAgain

SpecDedupe == DedupeInit /\ [][DedupeNext]_vars

(***************************************************************************)
(* InsuranceService.sort_by_date over the list the service holds.          *)
(***************************************************************************)
SortRecords ==
    [full_name : {"Ana", "Bob"}, due_day : {None, Date(8), Date(9)}, notice : {None},
     policy_number : {"P1"}, cell_phone : {GoodPhone}]

SortInit ==
    /\ users \in SeqUpTo(SortRecords, MaxLen)
    /\ pc = "start"
    /\ status = "none"
    /\ unique_users = <<>>
    /\ ListsIdle /\ StorageEmpty /\ QueriesIdle /\ NotifyIdle /\ MainIdle

\* Mutant: the list is sorted in place (self.users.sort(key=get_date)).
SortByDateInPlace ==
    /\ pc = "start"
    /\ pc' = "sorted"
    /\ site' = "due_day"
    /\ status' = "ok"
    /\ sorted_users' = sort_by_date(users, "due_day")
    /\ users' = sort_by_date(users, "due_day")
    /\ UNCHANGED <<mainvars, unique_users, duplicate_count, again,
                   dbvars, queryvars, notifyvars>>

\* display_user_info: insurance_service.sort_by_date('due_day')
SortByDate ==
    /\ pc = "start"
    /\ pc' = "sorted"
    /\ site' = "due_day"
    /\ status' = "ok"
    /\ sorted_users' = sort_by_date(users, "due_day")
    /\ UNCHANGED <<mainvars, users, unique_users, duplicate_count, again,
                   dbvars, queryvars, notifyvars>>

SortNext == SortByDate

SpecSort == SortInit /\ [][SortNext]_vars

(***************************************************************************)
(* The users table: insert, then the classification queries.               *)
(***************************************************************************)
StoredUsers ==
    [full_name : {"Ana"}, due_day : OptDates, notice : OptDates,
     policy_number : {"P1"}, cell_phone : {GoodPhone}]

Init ==
    /\ users = <<>>
    /\ pc = "start"
    /\ status = "none"
    /\ unique_users = <<>>
    /\ ListsIdle /\ StorageEmpty /\ QueriesIdle /\ NotifyIdle /\ MainIdle

\* The table after the stored row with the user's key took the user's fields.
Replaced(tbl, user) ==
    [k \in 1..Len(tbl) |->
        IF /\ tbl[k].full_name = user.full_name
           /\ tbl[k].due_day = user.due_day
           /\ tbl[k].policy_number = user.policy_number
        THEN Row(user, tbl[k].id) ELSE tbl[k]]

\* Mutant: a duplicate is written over the stored row instead of skipped.
insert_or_replace(U) ==
    /\ pc = "start"
    /\ ran = {}
    /\ Len(table) < MaxRows
    /\ \E user \in U :
        IF check_duplicate(table, user)
        THEN /\ status' = "inserted"
             /\ table' = Replaced(table, user)
        ELSE /\ status' = "inserted"
             /\ table' = Append(table, Row(user, Len(table) + 1))
    /\ UNCHANGED <<mainvars, users, pc, unique_users, today, runs, listvars, queryvars, notifyvars>>

\* BaseRepository.insert(item, skip_duplicates=True) on UserRepository
insert(U) ==
    /\ pc = "start"
    /\ ran = {}
    /\ Len(table) < MaxRows
    /\ \E user \in U :
        IF check_duplicate(table, user)
        THEN /\ status' = "skipped"
             /\ table' = table
        ELSE IF violates_unique_key(table, user)
        THEN /\ status' = "DatabaseError"
             /\ table' = table
        ELSE /\ status' = "inserted"
             /\ table' = Append(table, Row(user, Len(table) + 1))
    /\ UNCHANGED <<mainvars, users, pc, unique_users, today, runs, listvars, queryvars, notifyvars>>

InsertUser == insert(StoredUsers)

\* UserRepository.get_due_soon(days)
GetDueSoon ==
    /\ pc = "start"
    /\ \E days \in 0..MaxDays :
        \E fetched \in OrderedByDueDay(get_due_soon(table, today, days)) :
            /\ days_ahead' = days
            /\ status' = get_by_query(fetched).status
            /\ due_soon' = get_by_query(fetched).users
    /\ ran' = ran \cup {"get_due_soon"}
    /\ query_today' = [query_today EXCEPT !.get_due_soon = today]
    /\ UNCHANGED <<main_pc, args, db_service, closes, exit_code, raised, call,
                   users, pc, unique_users, overdue, dbvars, listvars, notifyvars>>

\* UserRepository.get_overdue()
GetOverdue ==
    /\ pc = "start"
    /\ \E fetched \in OrderedByDueDay(get_overdue(table, today)) :
        /\ status' = get_by_query(fetched).status
        /\ overdue' = get_by_query(fetched).users
    /\ ran' = ran \cup {"get_overdue"}
    /\ query_today' = [query_today EXCEPT !.get_overdue = today]
    /\ UNCHANGED <<main_pc, args, db_service, closes, exit_code, raised, call,
                   users, pc, unique_users, days_ahead, due_soon, dbvars,
                   listvars, notifyvars>>

Next ==
    \/ InsertUser
    \/ GetDueSoon
    \/ GetOverdue

Spec == Init /\ [][Next]_vars

(***************************************************************************)
(* The notification check over the stored rows.                            *)
(***************************************************************************)
NotifyUsers ==
    [full_name : {"Ana"}, due_day : {None, Date(1), Date(2)}, notice : {None, Date(1)},
     policy_number : PolicyNumbers, cell_phone : {GoodPhone}]

InsertNotifyUser == insert(NotifyUsers)

\* Mutant: the production flag is ignored and every run is a production run.
test_mode_always_off(args_) == FALSE

\* main: test_mode = not args.prod
test_mode_for(args_) == ~args_.prod

\* main under "if args.sms": NotificationService(user_repository, test_mode)
\* with the test mode the command line asks for; __init__ reads the date and
\* makes the Viber client when a token is configured.
NewNotificationService ==
    /\ pc = "start"
    /\ pc' = "ready"
    /\ ns_today' = today
    /\ \E a \in Args :
        /\ a.sms
        /\ args' = a
        /\ test_mode' = test_mode_for(a)
    /\ viber' \in BOOLEAN
    /\ UNCHANGED <<main_pc, db_service, closes, exit_code, raised, query_today, call,
                   users, status, unique_users, idx, messages_sent_count, sends,
                   dbvars, listvars, queryvars>>

\* check_upcoming_insurance(days_ahead) up to the loop: the query, which may
\* fail on the server, and the deduplication. Whatever the query raises is
\* caught by "except Exception" and raised again as NotificationError.
CheckStart ==
    /\ pc = "ready"
    /\ \E days \in 0..MaxDays, db_ok \in BOOLEAN :
        \E fetched \in OrderedByDueDay(
               get_upcoming_insurance_users(table, ns_today, PlusDays(ns_today, days),
                                            ns_today)) :
            LET got == IF db_ok THEN get_by_query(fetched)
                       ELSE [status |-> "DatabaseError", users |-> <<>>]
            IN  /\ days_ahead' = days
                /\ status' = IF got.status = "ok" THEN "ok" ELSE "NotificationError"
                /\ raised' = IF got.status = "ok" THEN raised
                              ELSE <<got.status, "NotificationError">>
                /\ pc' = IF got.status = "ok" THEN "loop" ELSE "done"
                /\ users' = got.users
                /\ unique_users' = deduplicate_users(got.users)
    /\ idx' = 1
    /\ messages_sent_count' = 0
    /\ sends' = <<>>
    /\ UNCHANGED <<main_pc, args, db_service, closes, exit_code, query_today, call,
                   ran, due_soon, overdue, ns_today, test_mode, viber, dbvars,
                   listvars>>

\* Mutant: a send that raises ends the loop.
ProcessUserAbortOnFailure ==
    /\ pc = "loop"
    /\ idx <= Len(unique_users)
    /\ LET user == unique_users[idx]
           message == message_for(user, ns_today)
           phone_number == IF test_mode THEN TEST_PHONE ELSE user.cell_phone
       IN  IF message = "none"
           THEN idx' = idx + 1 /\ UNCHANGED <<messages_sent_count, sends>>
           ELSE \E gateway_ok \in BOOLEAN :
                   LET message_id == send_message(viber, test_mode, phone_number,
                                                  gateway_ok)
                   IN  /\ sends' = Append(sends, [user |-> user, message |-> message,
                                                  to |-> phone_number,
                                                  result |-> message_id])
                       /\ idx' = IF message_id = "NotificationError"
                                 THEN Len(unique_users) + 1 ELSE idx + 1
                       /\ messages_sent_count' =
                              IF message_id = "id" THEN messages_sent_count + 1
                              ELSE messages_sent_count
    /\ UNCHANGED <<mainvars, users, pc, status, unique_users, ns_today, test_mode, viber,
                   dbvars, listvars, queryvars>>

\* One pass of the loop over unique_users.
ProcessUser ==
    /\ pc = "loop"
    /\ idx <= Len(unique_users)
    /\ idx' = idx + 1
    /\ LET user == unique_users[idx]
           message == message_for(user, ns_today)
           phone_number == IF test_mode THEN TEST_PHONE ELSE user.cell_phone
       IN  IF message = "none"
           THEN UNCHANGED <<messages_sent_count, sends>>
           ELSE \E gateway_ok \in BOOLEAN :
                   LET message_id == send_message(viber, test_mode, phone_number,
                                                  gateway_ok)
                   IN  /\ sends' = Append(sends, [user |-> user, message |-> message,
                                                  to |-> phone_number,
                                                  result |-> message_id])
                       /\ messages_sent_count' =
                              IF message_id = "id" THEN messages_sent_count + 1
                              ELSE messages_sent_count
    /\ UNCHANGED <<mainvars, users, pc, status, unique_users, ns_today, test_mode, viber,
                   dbvars, listvars, queryvars>>

\* return messages_sent_count
CheckReturn ==
    /\ pc = "loop"
    /\ idx > Len(unique_users)
    /\ pc' = "done"
    /\ UNCHANGED <<mainvars, users, status, unique_users, dbvars, listvars, queryvars, notifyvars>>

NotifyNext ==
    \/ InsertNotifyUser
    \/ NewNotificationService
    \/ CheckStart
    \/ ProcessUser
    \/ CheckReturn

SpecNotify == Init /\ [][NotifyNext]_vars

(***************************************************************************)
(* One run over the stored rows on any day: the classification queries,    *)
(* then the notification check.                                            *)
(***************************************************************************)
ClassifyUsers ==
    [full_name : {"Ana"}, due_day : {None, Date(1)}, notice : {None, Date(1)},
     policy_number : {"P1"}, cell_phone : {GoodPhone}]

\* date.today() is any of the days of the model.
ClassifyInit ==
    /\ users = <<>>
    /\ pc = "start"
    /\ status = "none"
    /\ unique_users = <<>>
    /\ table = <<>>
    /\ today \in Dates
    /\ runs = <<>>
    /\ ListsIdle /\ QueriesIdle /\ NotifyIdle /\ MainIdle

InsertClassifyUser == insert(ClassifyUsers)

ClassifyNext ==
    \/ InsertClassifyUser
    \/ GetDueSoon
    \/ GetOverdue
    \/ NewNotificationService
    \/ CheckStart
    \/ ProcessUser
    \/ CheckReturn

SpecClassify == ClassifyInit /\ [][ClassifyNext]_vars

(***************************************************************************)
(* ExcelService.get_users over a sheet with numeric columns.               *)
(***************************************************************************)
\* A row that passes every check of get_users.
BaseRow(p) ==
    [full_name |-> "Ana", due_day |-> Date(9), notice |-> None, policy_number |-> p,
     cell_phone |-> GoodPhone, amount |-> Num(7), installments |-> Num(2)]

\* The rows of the sheets: a good row, or a good row with one cell changed.
IngestRows ==
    UNION {{BaseRow(p),
            [BaseRow(p) EXCEPT !.full_name = ""],
            [BaseRow(p) EXCEPT !.due_day = None],
            [BaseRow(p) EXCEPT !.due_day = Unparseable],
            [BaseRow(p) EXCEPT !.cell_phone = BadPhone],
            [BaseRow(p) EXCEPT !.amount = NaN],
            [BaseRow(p) EXCEPT !.amount = Text],
            [BaseRow(p) EXCEPT !.amount = Num(-5)],
            [BaseRow(p) EXCEPT !.installments = Text],
            [BaseRow(p) EXCEPT !.installments = Num(-1)]} : p \in PolicyNumbers}

IngestInit ==
    /\ users \in SeqUpTo(IngestRows, MaxLen)
    /\ pc = "start"
    /\ status = "none"
    /\ unique_users = <<>>
    /\ ListsIdle /\ StorageEmpty /\ QueriesIdle /\ NotifyIdle /\ MainIdle

\* main: users = excel_service.get_users()
IngestGetUsers ==
    /\ pc = "start"
    /\ pc' = "ingested"
    /\ site' = "ingest"
    /\ LET r == get_users(users)
       IN  /\ status' = r.status
           /\ unique_users' = r.users
           /\ duplicate_count' = r.duplicate_count
    /\ UNCHANGED <<mainvars, users, again, sorted_users, dbvars, queryvars, notifyvars>>

IngestNext == IngestGetUsers

SpecIngest == IngestInit /\ [][IngestNext]_vars

(***************************************************************************)
(* Batch runs of main that insert into the same table, each over its own   *)
(* connection: the loop "for user in users: user_repository.insert(user)". *)
(* Between the duplicate check of an insert and its INSERT statement the   *)
(* other run may act.                                                      *)
(***************************************************************************)
RunIds == {1, 2}

RunUsers ==
    [full_name : {"Ana"}, due_day : {Date(1), Date(2)}, notice : {None},
     policy_number : PolicyNumbers, cell_phone : {GoodPhone}]

\* The lists get_users can return: every record has its own key.
RunFiles ==
    {f \in SeqUpTo(RunUsers, MaxRows) :
        \A i, j \in 1..Len(f) : i /= j => f[i] /= f[j]}

NewRun(f) ==
    [file |-> f, i |-> 1, pc |-> IF f = <<>> THEN "done" ELSE "check", results |-> <<>>]

RunsInit ==
    /\ users = <<>>
    /\ pc = "start"
    /\ status = "none"
    /\ unique_users = <<>>
    /\ table = <<>>
    /\ today = Date(1)
    /\ runs \in [RunIds -> {NewRun(f) : f \in RunFiles}]
    /\ ListsIdle /\ QueriesIdle /\ NotifyIdle /\ MainIdle

\* The run after insert returned result for its current record.
Returned(run, result) ==
    [run EXCEPT !.results = Append(@, result),
                !.i = @ + 1,
                !.pc = IF run.i + 1 > Len(run.file) THEN "done" ELSE "check"]

\* insert, up to the duplicate check: return False on a duplicate.
RunCheck(r) ==
    /\ runs[r].pc = "check"
    /\ runs' = [runs EXCEPT ![r] =
                   IF check_duplicate(table, runs[r].file[runs[r].i])
                   THEN Returned(runs[r], FALSE)
                   ELSE [runs[r] EXCEPT !.pc = "insert"]]
    /\ UNCHANGED <<mainvars, users, pc, status, unique_users, table, today,
                   listvars, queryvars, notifyvars>>

\* insert, the INSERT statement: MySQL rejects a row that collides with the
\* UNIQUE KEY, execute_query raises DatabaseError, insert re-raises it and
\* main exits.
RunInsert(r) ==
    /\ runs[r].pc = "insert"
    /\ IF violates_unique_key(table, runs[r].file[runs[r].i])
       THEN /\ runs' = [runs EXCEPT ![r].pc = "DatabaseError"]
            /\ status' = "DatabaseError"
            /\ table' = table
       ELSE /\ runs' = [runs EXCEPT ![r] = Returned(runs[r], TRUE)]
            /\ status' = "inserted"
            /\ table' = Append(table, Row(runs[r].file[runs[r].i], Len(table) + 1))
    /\ UNCHANGED <<mainvars, users, pc, unique_users, today, listvars, queryvars, notifyvars>>

RunsCheck == \E r \in RunIds : RunCheck(r)
RunsInsert == \E r \in RunIds : RunInsert(r)

RunsNext ==
    \/ RunsCheck
    \/ RunsInsert

SpecRuns == RunsInit /\ [][RunsNext]_vars

(***************************************************************************)
(* Two runs of main, the second after the first ended.                     *)
(***************************************************************************)
\* The run may act: the first run, or the second once the first has ended.
Turn(r) == r = 1 \/ runs[1].pc \in {"done", "DatabaseError"}

ReimportCheck == \E r \in RunIds : Turn(r) /\ RunCheck(r)
ReimportInsert == \E r \in RunIds : Turn(r) /\ RunInsert(r)

ReimportNext ==
    \/ ReimportCheck
    \/ ReimportInsert

SpecReimport == RunsInit /\ [][ReimportNext]_vars

(***************************************************************************)
(* main(): connect, create the table, read the sheet, insert, display,     *)
(* then the handlers and the finally block.                                *)
(***************************************************************************)
\* The rows of the sheets of a run of main.
MainRows ==
    {BaseRow("P1"), BaseRow("P2"), [BaseRow("P1") EXCEPT !.cell_phone = BadPhone]}

\* A Python list and a UserRepository, as values an attribute is looked up on.
List(items) == [type |-> "list", items |-> items]
Repository == [type |-> "UserRepository", items |-> <<>>]

\* InsuranceService.__init__(user_repository, users=None)
InsuranceService(user_repository, users_) ==
    [user_repository |-> user_repository, users |-> users_]

\* InsuranceService.get_due_soon: self.user_repository.get_due_soon(days),
\* which only a UserRepository has.
service_get_due_soon(insurance_service) ==
    IF insurance_service.user_repository.type = "UserRepository"
    THEN "ok" ELSE "AttributeError"

\* display_user_info(insurance_service): its first statement is
\* insurance_service.get_due_soon(); log_operation re-raises what it raises.
display_user_info(insurance_service) == service_get_due_soon(insurance_service)

\* The except clauses of main: the exit code sys.exit is called with, 0 when
\* the clause only logs.
main_except(exception) ==
    IF exception = "DataImportError" THEN 1
    ELSE IF exception = "NotificationError" THEN 0
    ELSE IF exception = "DatabaseError" THEN 1
    ELSE 1

\* The exception that is propagating.
Propagating == raised[Len(raised)]

MainInit ==
    /\ users \in SeqUpTo(MainRows, MaxLen)
    /\ pc = "start"
    /\ status = "none"
    /\ unique_users = <<>>
    /\ ListsIdle /\ StorageEmpty /\ QueriesIdle /\ NotifyIdle
    /\ main_pc = "start"
    /\ args \in Args
    /\ db_service = "None" /\ closes = 0 /\ exit_code = -1 /\ raised = <<>>
    /\ query_today = NoQueryToday /\ call = NoCall

\* db_service = DatabaseService(): mysql.connector.connect may fail.
MainConnect ==
    /\ main_pc = "start"
    /\ \E connected \in BOOLEAN :
        IF connected
        THEN /\ db_service' = "open"
             /\ main_pc' = "repository"
             /\ UNCHANGED raised
        ELSE /\ raised' = <<"DatabaseError">>
             /\ main_pc' = "except"
             /\ UNCHANGED db_service
    /\ UNCHANGED <<users, pc, status, unique_users, args, closes, exit_code,
                   query_today, call, listvars, dbvars, queryvars, notifyvars>>

\* user_repository = UserRepository(db_service): __init__ creates the table.
MainRepository ==
    /\ main_pc = "repository"
    /\ \E created \in BOOLEAN :
        IF created
        THEN main_pc' = "excel" /\ UNCHANGED raised
        ELSE raised' = <<"DatabaseError">> /\ main_pc' = "except"
    /\ UNCHANGED <<users, pc, status, unique_users, args, db_service, closes,
                   exit_code, query_today, call, listvars, dbvars, queryvars,
                   notifyvars>>

\* users = excel_service.get_users()
MainGetUsers ==
    /\ main_pc = "excel"
    /\ LET r == get_users(users)
       IN  /\ status' = r.status
           /\ unique_users' = r.users
           /\ duplicate_count' = r.duplicate_count
           /\ IF r.status = "ok"
              THEN main_pc' = "insert" /\ UNCHANGED raised
              ELSE main_pc' = "except" /\ raised' = <<r.status>>
    /\ site' = "ingest"
    /\ idx' = 1
    /\ UNCHANGED <<users, pc, again, sorted_users, args, db_service, closes,
                   exit_code, query_today, call, dbvars, queryvars, ns_today,
                   test_mode, viber, messages_sent_count, sends>>

\* One pass of "for user in users: user_repository.insert(user)"; the
\* statement may fail on the server.
MainInsert ==
    /\ main_pc = "insert"
    /\ idx <= Len(unique_users)
    /\ idx' = idx + 1
    /\ LET user == unique_users[idx]
       IN  \E db_ok \in BOOLEAN :
            IF db_ok /\ check_duplicate(table, user)
            THEN /\ status' = "skipped"
                 /\ UNCHANGED <<table, main_pc, raised>>
            ELSE IF ~db_ok \/ violates_unique_key(table, user)
            THEN /\ status' = "DatabaseError"
                 /\ raised' = <<"DatabaseError">>
                 /\ main_pc' = "except"
                 /\ UNCHANGED table
            ELSE /\ status' = "inserted"
                 /\ table' = Append(table, Row(user, Len(table) + 1))
                 /\ UNCHANGED <<main_pc, raised>>
    /\ UNCHANGED <<users, pc, unique_users, today, runs, args, db_service, closes,
                   exit_code, query_today, call, listvars, queryvars, ns_today,
                   test_mode, viber, messages_sent_count, sends>>

\* insurance_service = InsuranceService(users);
\* display_user_info(insurance_service)
MainDisplayUserInfo ==
    /\ main_pc = "insert"
    /\ idx > Len(unique_users)
    /\ LET insurance_service == InsuranceService(List(unique_users), <<>>)
           displayed == display_user_info(insurance_service)
       IN  IF displayed = "ok"
           THEN main_pc' = "sms" /\ UNCHANGED raised
           ELSE main_pc' = "except" /\ raised' = <<displayed>>
    /\ UNCHANGED <<users, pc, status, unique_users, args, db_service, closes,
                   exit_code, query_today, call, listvars, dbvars, queryvars,
                   notifyvars>>

\* The except clause that catches the exception: it logs, and calls
\* sys.exit(1) unless it is the clause of NotificationError.
MainExcept ==
    /\ main_pc = "except"
    /\ main_pc' = "finally"
    /\ status' = IF main_except(Propagating) = 0 THEN "logged" ELSE "SystemExit"
    /\ UNCHANGED <<users, pc, unique_users, args, db_service, closes, exit_code,
                   raised, query_today, call, listvars, dbvars, queryvars,
                   notifyvars>>

\* Mutant: the finally block leaves the connection open.
MainFinallyLeavesOpen ==
    /\ main_pc = "finally"
    /\ main_pc' = "exit"
    /\ exit_code' = IF status = "SystemExit" THEN main_except(Propagating) ELSE 0
    /\ UNCHANGED <<users, pc, status, unique_users, args, db_service, closes,
                   raised, query_today, call, listvars, dbvars, queryvars,
                   notifyvars>>

\* finally: if db_service: db_service.close(); then the process exits with
\* the code of sys.exit, or 0.
MainFinally ==
    /\ main_pc = "finally"
    /\ main_pc' = "exit"
    /\ IF db_service /= "None"
       THEN db_service' = "closed" /\ closes' = closes + 1
       ELSE UNCHANGED <<db_service, closes>>
    /\ exit_code' = IF status = "SystemExit" THEN main_except(Propagating) ELSE 0
    /\ UNCHANGED <<users, pc, status, unique_users, args, raised, query_today,
                   call, listvars, dbvars, queryvars, notifyvars>>

MainNext ==
    \/ MainConnect
    \/ MainRepository
    \/ MainGetUsers
    \/ MainInsert
    \/ MainDisplayUserInfo
    \/ MainExcept
    \/ MainFinally

SpecMain == MainInit /\ [][MainNext]_vars

(***************************************************************************)
(* normalize_phone and format_viber_message applied to a phone number.     *)
(***************************************************************************)
\* The characters of the phone numbers: two digits, the plus sign and a
\* separator.
PhoneChars == {"0", "8", "+", "-"}

\* format_viber_message: the receiver of the message made for a user.
format_viber_message(user) ==
    LET phone == normalize_phone(user.cell_phone)
    IN  IF phone = <<>> THEN <<"UNKNOWN">> ELSE phone

PhoneInit ==
    /\ users = <<>>
    /\ pc = "start"
    /\ status = "none"
    /\ unique_users = <<>>
    /\ ListsIdle /\ StorageEmpty /\ QueriesIdle /\ NotifyIdle
    /\ main_pc = "none" /\ args = [sms |-> FALSE, prod |-> FALSE]
    /\ db_service = "None" /\ closes = 0 /\ exit_code = -1 /\ raised = <<>>
    /\ query_today = NoQueryToday
    /\ \E phone \in SeqUpTo(PhoneChars, MaxLen) :
        call = [NoCall EXCEPT !.args = <<phone>>]

\* normalize_phone(phone)
NormalizePhone ==
    /\ call.op = "none"
    /\ call' = [call EXCEPT !.op = "normalize_phone",
                            !.result = normalize_phone(call.args[1])]
    /\ UNCHANGED <<users, pc, status, unique_users, main_pc, args, db_service,
                   closes, exit_code, raised, query_today, listvars, dbvars,
                   queryvars, notifyvars>>

\* normalize_phone applied to what normalize_phone returned.
NormalizePhoneAgain ==
    /\ call.op = "normalize_phone"
    /\ call' = [call EXCEPT !.op = "normalize_phone again",
                            !.made = call.result,
                            !.result = normalize_phone(call.result)]
    /\ UNCHANGED <<users, pc, status, unique_users, main_pc, args, db_service,
                   closes, exit_code, raised, query_today, listvars, dbvars,
                   queryvars, notifyvars>>

\* format_viber_message(user, message_text) for a user with the phone number.
FormatViberMessage ==
    /\ call.op = "none"
    /\ call' = [call EXCEPT !.op = "format_viber_message",
                            !.made = normalize_phone(call.args[1]),
                            !.result = format_viber_message([cell_phone |-> call.args[1]])]
    /\ UNCHANGED <<users, pc, status, unique_users, main_pc, args, db_service,
                   closes, exit_code, raised, query_today, listvars, dbvars,
                   queryvars, notifyvars>>

PhoneNext ==
    \/ NormalizePhone
    \/ NormalizePhoneAgain
    \/ FormatViberMessage

SpecPhone == PhoneInit /\ [][PhoneNext]_vars

(***************************************************************************)
(* date_helpers.DateRange: a window of days and its contains().            *)
(***************************************************************************)
\* The dates a window is asked about.
CheckDates == {Date(0), Date(1), Date(2), Date(3), Date(4), Date(5)}

\* DateRange.__init__(start_date, end_date=None, days=None); days is None or
\* <<n>>.
DateRange(start_date, end_date, days) ==
    [start_date |-> start_date,
     end_date |-> IF end_date /= None THEN end_date
                  ELSE IF days /= None THEN PlusDays(start_date, days[1])
                  ELSE start_date]

\* DateRange.contains(check_date): self.start_date <= check_date <=
\* self.end_date; comparing a date with None raises TypeError.
contains(self, check_date) ==
    IF ~IsSet(check_date) THEN "TypeError"
    ELSE IF Day(self.start_date) <= Day(check_date)
            /\ Day(check_date) <= Day(self.end_date)
         THEN "True" ELSE "False"

WindowInit ==
    /\ users = <<>>
    /\ pc = "start"
    /\ status = "none"
    /\ unique_users = <<>>
    /\ ListsIdle /\ StorageEmpty /\ QueriesIdle /\ NotifyIdle
    /\ main_pc = "none" /\ args = [sms |-> FALSE, prod |-> FALSE]
    /\ db_service = "None" /\ closes = 0 /\ exit_code = -1 /\ raised = <<>>
    /\ query_today = NoQueryToday
    /\ \E start_date \in Dates, days \in 0..(MaxDays + 1),
          check_date \in {None} \cup CheckDates :
        call = [NoCall EXCEPT !.args = <<start_date, days, check_date>>]

\* DateRange(start_date, days=days)
NewDateRange ==
    /\ call.op = "none"
    /\ call' = [call EXCEPT !.op = "DateRange",
                            !.made = DateRange(call.args[1], None, <<call.args[2]>>)]
    /\ UNCHANGED <<users, pc, status, unique_users, main_pc, args, db_service,
                   closes, exit_code, raised, query_today, listvars, dbvars,
                   queryvars, notifyvars>>

\* window.contains(check_date)
Contains ==
    /\ call.op = "DateRange"
    /\ call' = [call EXCEPT !.op = "contains",
                            !.result = <<contains(call.made, call.args[3])>>]
    /\ UNCHANGED <<users, pc, status, unique_users, main_pc, args, db_service,
                   closes, exit_code, raised, query_today, listvars, dbvars,
                   queryvars, notifyvars>>

WindowNext ==
    \/ NewDateRange
    \/ Contains

SpecWindow == WindowInit /\ [][WindowNext]_vars

(***************************************************************************)
(* The three operations over records, each on its input: deduplication and *)
(* the sort on a list in memory, the classification queries on the table.  *)
(***************************************************************************)
FrameRecords ==
    [full_name : {"Ana"}, due_day : {None, Date(8)}, notice : {None},
     policy_number : {"P1"}, cell_phone : {GoodPhone}]

FrameInit ==
    /\ users \in SeqUpTo(FrameRecords, MaxLen)
    /\ pc = "start"
    /\ status = "none"
    /\ unique_users = <<>>
    /\ ListsIdle /\ StorageEmpty /\ QueriesIdle /\ NotifyIdle /\ MainIdle

InsertFrameUser == insert(ClassifyUsers)

FrameNext ==
    \/ NotificationDedupe
    \/ SortByDate
    \/ InsertFrameUser
    \/ GetDueSoon
    \/ GetOverdue

SpecFrame == FrameInit /\ [][FrameNext]_vars

(***************************************************************************)
(* One run while the system clock goes on: date.today() may give the next  *)
(* day at any later call.                                                  *)
(***************************************************************************)
\* The system date passes midnight.
Midnight ==
    /\ PlusDays(today, 1) \in Dates
    /\ today' = PlusDays(today, 1)
    /\ UNCHANGED <<mainvars, users, pc, status, unique_users, table, runs,
                   listvars, queryvars, notifyvars>>

InsertClockUser == insert(ClassifyUsers)

ClockNext ==
    \/ InsertClockUser
    \/ GetDueSoon
    \/ GetOverdue
    \/ NewNotificationService
    \/ CheckStart
    \/ ProcessUser
    \/ CheckReturn
    \/ Midnight

SpecClock == ClassifyInit /\ [][ClockNext]_vars

(***************************************************************************)
(* tests/test_users.py generate_notifications over the stored rows, next   *)
(* to the notification check over the same rows.                           *)
(***************************************************************************)
\* get_upcoming_dates(reference_date, days_ahead)
get_upcoming_dates(reference_date, days_ahead_) == PlusDays(reference_date, days_ahead_)

\* The notifications made for the rows of df whose field equals date, in
\* the order of the rows; row is the position of the row in df.
RECURSIVE notifications_for(_, _, _, _, _)
notifications_for(df, k, field, date, type) ==
    IF k > Len(df) THEN <<>>
    ELSE (IF (IF field = "due_day" THEN df[k].due_day ELSE df[k].notice) = date
          THEN <<[type |-> type, row |-> k, full_name |-> df[k].full_name,
                  cell_phone |-> df[k].cell_phone]>>
          ELSE <<>>) \o notifications_for(df, k + 1, field, date, type)

\* generate_notifications(df) on the day today_: five_days_ahead is
\* get_upcoming_dates(today, 5).
generate_notifications(df, today_) ==
    LET five_days_ahead == get_upcoming_dates(today_, 5)
    IN  notifications_for(df, 1, "due_day", today_, "due_today")
        \o notifications_for(df, 1, "notice", five_days_ahead, "upcoming_notice")

GenerateUsers ==
    [full_name : {"Ana"}, due_day : {Date(1), Date(2)},
     notice : {None, Date(1), Date(6)},
     policy_number : {"P1"}, cell_phone : {GoodPhone}]

InsertGenerateUser == insert(GenerateUsers)

\* generate_notifications(df) with the stored rows as df.
GenerateNotifications ==
    /\ call.op = "none"
    /\ call' = [call EXCEPT !.op = "generate_notifications",
                            !.args = <<table, today>>,
                            !.result = generate_notifications(table, today)]
    /\ UNCHANGED <<users, pc, status, unique_users, main_pc, args, db_service,
                   closes, exit_code, raised, query_today, listvars, dbvars,
                   queryvars, notifyvars>>

GenerateNext ==
    \/ InsertGenerateUser
    \/ GenerateNotifications
    \/ NewNotificationService
    \/ CheckStart
    \/ ProcessUser
    \/ CheckReturn

SpecGenerate == Init /\ [][GenerateNext]_vars

(***************************************************************************)
(* Properties of deduplication.                                            *)
(***************************************************************************)
\* The natural-identity key of a record.
NaturalKey(u) == <<u.full_name, str(u.due_day), u.policy_number>>

\* Positions of the first occurrence of each natural-identity key in us.
FirstOccurrences(us) ==
    {i \in 1..Len(us) : \A j \in 1..(i - 1) : NaturalKey(us[j]) /= NaturalKey(us[i])}

\* out lists exactly the elements of us at the positions I, in input order.
IsSelection(us, I, out) ==
    /\ Len(out) = Cardinality(I)
    /\ \A i \in I : out[Cardinality({j \in I : j < i}) + 1] = us[i]

\* A row that ingestion admits as a record: it has a name and a due date.
HasNameAndDueDay(r) == r.full_name /= "" /\ IsSet(r.due_day)

\* The records a site deduplicates: get_users drops rows without a name or a
\* due date before its duplicate check.
DedupeInput == IF site = "excel" THEN SelectSeq(users, HasNameAndDueDay) ELSE users

\* C1: at the notification, display and ingestion sites the returned list is
\* exactly the first occurrence of every natural-identity key of the input,
\* in input order; every later occurrence is dropped.
C1_KeepsFirstOccurrences ==
    (pc /= "start" /\ status = "ok" /\ site \in {"notification", "display", "excel"})
        => IsSelection(DedupeInput, FirstOccurrences(DedupeInput), unique_users)

\* A duplicate key at positions 1 and 3 with a different record in between:
\* the first and second records are kept, the third is dropped.
C1_Witness ==
    /\ pc = "deduped" /\ site = "notification"
    /\ Len(users) = 3
    /\ NaturalKey(users[1]) = NaturalKey(users[3])
    /\ users[1] /= users[3]
    /\ NaturalKey(users[1]) /= NaturalKey(users[2])
    /\ unique_users = <<users[1], users[2]>>

C3_Idempotent ==
    (pc = "again" /\ site \in {"notification", "display", "excel"})
        => again = unique_users

\* The second pass ran on a list from which the first pass had dropped records.
C3_Witness ==
    /\ pc = "again" /\ site = "notification"
    /\ Len(unique_users) = 2
    /\ Len(users) = 3
    /\ again = unique_users

NameAndDueDay(u) == <<u.full_name, str(u.due_day)>>

InList(list, r) == \E k \in 1..Len(list) : list[k] = r

\* C5 as stated: a row is in dueSoon exactly when its notice is set and the
\* reference date lies in [notice, notice + days], or its due date is set and
\* before the reference date.
C5_DueSoonAsStated ==
    ("get_due_soon" \in ran /\ status = "ok") =>
        \A r \in Rows(table) :
            InList(due_soon, r) <=>
                \/ (IsSet(r.notice) /\ Day(r.notice) <= Day(today)
                        /\ Day(today) <= Day(r.notice) + days_ahead)
                \/ (IsSet(r.due_day) /\ Day(r.due_day) < Day(today))

\* C5 amended: a row is in dueSoon exactly when its notice is set and lies in
\* [referenceDate, referenceDate + days], or its due date is set and lies in
\* that same window.
C5_DueSoonWindow ==
    "get_due_soon" \in ran =>
        \A r \in Rows(table) :
            InList(due_soon, r) <=>
                \/ (IsSet(r.notice) /\ Day(today) <= Day(r.notice)
                        /\ Day(r.notice) <= Day(today) + days_ahead)
                \/ (IsSet(r.due_day) /\ Day(today) <= Day(r.due_day)
                        /\ Day(r.due_day) <= Day(today) + days_ahead)

\* A row whose notice is the day before the reference date (and within the
\* window counted from the notice) is left out, next to a row that is in by
\* its notice alone.
C5_Witness ==
    /\ "get_due_soon" \in ran /\ days_ahead = 1
    /\ \E r \in Rows(table) :
        /\ r.notice = Date(Day(today) - 1) /\ r.due_day = None
        /\ ~InList(due_soon, r)
    /\ \E r \in Rows(table) :
        /\ r.notice = Date(Day(today) + 1) /\ r.due_day = None
        /\ InList(due_soon, r)

\* C6: a row is in overdue if and only if its due date is set and strictly
\* before the reference date; a row due on the reference date is not overdue.
C6_OverdueIffPast ==
    "get_overdue" \in ran =>
        /\ \A r \in Rows(table) :
            InList(overdue, r) <=> (IsSet(r.due_day) /\ Day(r.due_day) < Day(today))
        /\ \A k \in 1..Len(overdue) :
            overdue[k] \in Rows(table) /\ overdue[k].due_day /= today

\* One row due the day before the reference date is overdue, one due on the
\* reference date is not.
C6_Witness ==
    /\ "get_overdue" \in ran
    /\ \E r \in Rows(table) : r.due_day = today /\ ~InList(overdue, r)
    /\ \E r \in Rows(table) :
        r.due_day = Date(Day(today) - 1) /\ InList(overdue, r)

\* C7 as stated: every row in overdue is in dueSoon.
C7_OverdueInDueSoon ==
    ({"get_due_soon", "get_overdue"} \subseteq ran) =>
        \A k \in 1..Len(overdue) : InList(due_soon, overdue[k])

\* C7 amended: a row in overdue is in dueSoon exactly when its notice is set
\* and lies in [referenceDate, referenceDate + days]; an overdue row without
\* such a notice is in overdue only.
C7_OverdueInDueSoonIffNotice ==
    ({"get_due_soon", "get_overdue"} \subseteq ran) =>
        \A k \in 1..Len(overdue) :
            InList(due_soon, overdue[k]) <=>
                (IsSet(overdue[k].notice) /\ Day(today) <= Day(overdue[k].notice)
                    /\ Day(overdue[k].notice) <= Day(today) + days_ahead)

\* An overdue row without a notice is in overdue only, next to a row due on
\* the reference date that is in dueSoon only.
C7_Witness ==
    /\ {"get_due_soon", "get_overdue"} \subseteq ran
    /\ \E r \in Rows(table) :
        /\ r.due_day = Date(Day(today) - 1) /\ r.notice = None
        /\ InList(overdue, r) /\ ~InList(due_soon, r)
    /\ \E r \in Rows(table) :
        /\ r.due_day = today
        /\ ~InList(overdue, r) /\ InList(due_soon, r)

(***************************************************************************)
(* Properties of the ordering.                                             *)
(***************************************************************************)
\* Alphabetical position of the names of the model.
NameRank(name) == IF name = "Ana" THEN 1 ELSE 2

\* a comes before b, or is tied with it, in the order by due date ascending,
\* absent due date last, then by full_name ascending.
DueDayThenName(a, b) ==
    \/ (IsSet(a.due_day) /\ ~IsSet(b.due_day))
    \/ (IsSet(a.due_day) /\ IsSet(b.due_day) /\ Day(a.due_day) < Day(b.due_day))
    \/ (a.due_day = b.due_day /\ NameRank(a.full_name) <= NameRank(b.full_name))

\* C8: the list sort_by_date('due_day') returns is in ascending due date
\* order, records without a due date last, and records sharing a due date are
\* in full_name order.
C8_SortedByDueDayThenName ==
    pc = "sorted" =>
        \A i, j \in 1..Len(sorted_users) :
            i < j => DueDayThenName(sorted_users[i], sorted_users[j])

(***************************************************************************)
(* Properties of the notification check.                                   *)
(***************************************************************************)
\* The messages of the send_message calls made for the user.
MessagesFor(user) ==
    {sends[j].message : j \in {k \in 1..Len(sends) : sends[k].user = user}}

\* C9: for every record the loop has processed: notice on the reference date
\* gives the reminder (also when the due date is the reference date too);
\* otherwise a due date on the reference date gives the 'due TODAY' message;
\* otherwise no message is produced and send_message is not called.
C9_MessagePriority ==
    pc \in {"loop", "done"} =>
        \A k \in 1..(idx - 1) :
            LET user == unique_users[k]
            IN  /\ user.notice = ns_today => MessagesFor(user) = {"upcoming"}
                /\ (user.notice /= ns_today /\ user.due_day = ns_today)
                       => MessagesFor(user) = {"due_today"}
                /\ (user.notice /= ns_today /\ user.due_day /= ns_today)
                       => MessagesFor(user) = {}

\* A record with notice and due date both on the reference date got the
\* reminder; a record selected by the date window, due tomorrow, got nothing.
C9_Witness ==
    /\ pc = "done" /\ Len(unique_users) = 2
    /\ \E k \in 1..2 :
        /\ unique_users[k].notice = ns_today /\ unique_users[k].due_day = ns_today
        /\ MessagesFor(unique_users[k]) = {"upcoming"}
    /\ \E k \in 1..2 :
        /\ unique_users[k].notice /= ns_today
        /\ unique_users[k].due_day = Date(Day(ns_today) + 1)
        /\ MessagesFor(unique_users[k]) = {}

\* C10: in one run of check_upcoming_insurance no two send_message calls are for records
\* with the same (full_name, due_day, policy_number).
C10_OneSendPerKey ==
    pc \in {"loop", "done"} =>
        \A i, j \in 1..Len(sends) :
            i /= j => NaturalKey(sends[i].user) /= NaturalKey(sends[j].user)

\* Storage returned two rows with the same key, both with notice on the
\* reference date; one message was sent.
C10_Witness ==
    /\ pc = "done"
    /\ Len(users) = 2
    /\ NaturalKey(users[1]) = NaturalKey(users[2])
    /\ users[1].notice = ns_today /\ users[2].notice = ns_today
    /\ Len(sends) = 1 /\ sends[1].result = "id"
    /\ messages_sent_count = 1

(***************************************************************************)
(* Properties of records without dates.                                    *)
(***************************************************************************)
\* The send_message calls made for the row.
SendsFor(r) == {k \in 1..Len(sends) : sends[k].user = r}

\* No call of the run ended in an exception, a failure of the database
\* server during the query of the check aside.
NoError ==
    \/ status \in {"none", "ok", "inserted", "skipped"}
    \/ raised = <<"DatabaseError", "NotificationError">>

\* C11: a stored row without due date and without notice is never in the
\* list get_overdue returns, is never selected or sent a message by the
\* notification check, on any day, and no call raises.
C11_NoDatesNeverClassified ==
    \A r \in Rows(table) :
        (r.due_day = None /\ r.notice = None) =>
            /\ ~InList(overdue, r)
            /\ SendsFor(r) = {}
            /\ ~InList(unique_users, r)
            /\ NoError

\* Both queries and the check have run over a table that holds a row without
\* dates next to a row that got a message.
C11_Witness ==
    /\ pc = "done" /\ {"get_overdue", "get_due_soon"} \subseteq ran
    /\ Len(table) = 2
    /\ \E r \in Rows(table) : r.due_day = None /\ r.notice = None
    /\ Len(sends) = 1

C13_FailedSendIsSkipped ==
    (pc = "done" /\ status = "ok") =>
        /\ \A k \in 1..Len(unique_users) :
            (unique_users[k].notice = ns_today \/ unique_users[k].due_day = ns_today)
                => Cardinality(SendsFor(unique_users[k])) = 1
        /\ messages_sent_count =
               Cardinality({k \in 1..Len(sends) : sends[k].result = "id"})

\* The first send raised, the second record was still attempted and its
\* send returned an id; the count is 1.
C13_Witness ==
    /\ pc = "done"
    /\ Len(sends) = 2
    /\ sends[1].result = "NotificationError"
    /\ sends[2].result = "id"
    /\ sends[1].user /= sends[2].user
    /\ messages_sent_count = 1

(***************************************************************************)
(* Properties of ingestion.                                                *)
(***************************************************************************)
\* The row has a name and a due date that parses.
Complete(row) == row.full_name /= "" /\ Len(row.due_day) = 1

\* The row's phone and numbers pass validation.
PassesValidation(row) ==
    /\ row.cell_phone /= BadPhone
    /\ row.amount.kind = "int" => row.amount.val >= 0
    /\ row.installments.kind = "int" => row.installments.val >= 0

\* C14: get_users returns without an error, and every row that is complete
\* and passes validation is represented in the list returned, whatever the
\* other rows of the sheet are.
C14_BadRowIsolated ==
    pc = "ingested" =>
        /\ status = "ok"
        /\ \A i \in 1..Len(users) :
            (Complete(users[i]) /\ PassesValidation(users[i])) =>
                \E k \in 1..Len(unique_users) :
                    NaturalKey(unique_users[k]) = NaturalKey(users[i])

\* C15: on a sheet whose phone numbers are all valid, get_users returns
\* without an error and every record has amount >= 0 and installments >= 0:
\* an empty, a textual and a negative numeric cell all give 0.
C15_NumbersNormalized ==
    (pc = "ingested" /\ \A i \in 1..Len(users) : users[i].cell_phone /= BadPhone) =>
        /\ status = "ok"
        /\ \A k \in 1..Len(unique_users) :
            unique_users[k].amount >= 0 /\ unique_users[k].installments >= 0

\* C16: every record get_users returns has a non-empty full_name and a due
\* date, no two of them share a natural-identity key, and rows without a
\* name or without a due date that parses do not make get_users raise.
C16_IncompleteRowsDropped ==
    pc = "ingested" =>
        /\ \A k \in 1..Len(unique_users) :
            /\ unique_users[k].full_name /= ""
            /\ Len(unique_users[k].due_day) = 1
            /\ \A j \in 1..Len(unique_users) :
                j /= k => NaturalKey(unique_users[j]) /= NaturalKey(unique_users[k])
        /\ (\A i \in 1..Len(users) : PassesValidation(users[i])) =>
            /\ status = "ok"
            /\ Len(unique_users) <= Cardinality({i \in 1..Len(users) : Complete(users[i])})

\* A sheet with a row without a name, a row whose due date does not parse
\* and a good row: one record is returned, without an error.
C16_Witness ==
    /\ pc = "ingested" /\ status = "ok"
    /\ Len(users) = 3
    /\ users[1].full_name = ""
    /\ users[2].due_day = Unparseable
    /\ Complete(users[3])
    /\ Len(unique_users) = 1
    /\ NaturalKey(unique_users[1]) = NaturalKey(users[3])

(***************************************************************************)
(* Properties of persistence.                                              *)
(***************************************************************************)
\* C17: after any sequence of insert calls (duplicate skipping on) no two
\* stored rows have the same natural key (full_name, due_day,
\* policy_number), an absent due_day being equal to an absent due_day.
C17_InsertKeepsKeyUnique ==
    \A i, j \in 1..Len(table) :
        i /= j => NaturalKey(table[i]) /= NaturalKey(table[j])

\* C18: when two runs interleave their duplicate checks and inserts, no
\* insert fails with a storage error (the losing insert returns False) and
\* one row is stored for every key.
C18_RaceSafeInsert ==
    /\ \A r \in RunIds : runs[r].pc /= "DatabaseError"
    /\ \A i, j \in 1..Len(table) :
        i /= j => NaturalKey(table[i]) /= NaturalKey(table[j])

\* C19: no step of a run (insert, the classification queries, the
\* notification check) removes or changes a stored row: the table keeps
\* every row it has, with the same field values, and only grows.
C19_InsertOnly ==
    [][/\ Len(table') >= Len(table)
       /\ \A k \in 1..Len(table) : table'[k] = table[k]]_vars

\* An insert of a record whose key is stored was skipped and left the one
\* stored row in place.
C19_Witness ==
    /\ status = "skipped"
    /\ Len(table) = 1

\* C20: when a second run over the same file starts after the first run has
\* ended, every insert of the second run returns False, none fails, and the
\* table holds what the first run stored.
C20_ReimportNoOp ==
    (runs[1].file = runs[2].file) =>
        /\ runs[2].pc /= "DatabaseError"
        /\ \A k \in 1..Len(runs[2].results) : runs[2].results[k] = FALSE
        /\ runs[1].pc = "done" =>
               table = [k \in 1..Len(runs[1].file) |-> Row(runs[1].file[k], k)]

\* Both runs over a file of two records have ended: the first inserted both,
\* the second skipped both.
C20_Witness ==
    /\ runs[1].pc = "done" /\ runs[2].pc = "done"
    /\ runs[1].file = runs[2].file
    /\ runs[1].results = <<TRUE, TRUE>>
    /\ runs[2].results = <<FALSE, FALSE>>
    /\ Len(table) = 2

(***************************************************************************)
(* Properties of a run of main.                                            *)
(***************************************************************************)
\* Ingestion or storage failed in the run.
IngestionOrStorageFailed ==
    \E k \in 1..Len(raised) : raised[k] \in {"DataImportError", "DatabaseError"}

\* C21: the exit code of a run is non-zero exactly when ingestion or storage
\* failed; a run whose connection, sheet and inserts all succeed exits with 0.
C21_ExitCodeIffFailure ==
    main_pc = "exit" => (exit_code /= 0 <=> IngestionOrStorageFailed)

\* C27: a run asked to notify, whose ingestion and storage succeed, has
\* classified (both queries returned) and has run the notification check by
\* the time it exits.
C27_PipelineRunsToEnd ==
    (main_pc = "exit" /\ args.sms /\ ~IngestionOrStorageFailed)
        => /\ {"get_due_soon", "get_overdue"} \subseteq ran
           /\ IsSet(ns_today)
           /\ pc = "done"

\* C30: when the process exits after the connection was established, the
\* connection is closed, and it is never closed more than once.
C30_ClosedOnceBeforeExit ==
    /\ (main_pc = "exit" /\ db_service /= "None") => db_service = "closed"
    /\ closes <= 1
    /\ db_service = "closed" => closes = 1

\* A run that stored a record and then failed on the next insert has exited
\* with the connection closed.
C30_Witness ==
    /\ main_pc = "exit"
    /\ raised = <<"DatabaseError">>
    /\ Len(table) = 1
    /\ db_service = "closed"
    /\ closes = 1

\* C22: a DatabaseError raised in any phase of the run is the exception that
\* reaches main, and main answers it with a non-zero exit code; it is never
\* turned into the NotificationError that main only logs.
C22_StorageFailureFatal ==
    (\E k \in 1..Len(raised) : raised[k] = "DatabaseError")
        => /\ Propagating = "DatabaseError"
           /\ main_except(Propagating) /= 0

(***************************************************************************)
(* Properties of the target of a message.                                  *)
(***************************************************************************)
\* C23: unless the run was started with the production flag, every
\* send_message call of the run is addressed to TEST_PHONE and none to the
\* cell_phone of a record; with the flag, each call is addressed to the
\* cell_phone of its record.
C23_TestModeTargetsTestPhone ==
    \A k \in 1..Len(sends) :
        /\ ~args.prod => (sends[k].to = TEST_PHONE /\ sends[k].to /= sends[k].user.cell_phone)
        /\ args.prod => sends[k].to = sends[k].user.cell_phone

\* A run without the production flag has made a send_message call.
C23_Witness ==
    /\ pc = "done"
    /\ ~args.prod /\ test_mode
    /\ Len(sends) >= 1
    /\ sends[1].to = TEST_PHONE

(***************************************************************************)
(* Properties of phone normalisation.                                      *)
(***************************************************************************)
\* The characters of the phone number that are digits or the plus sign.
DigitsAndPlus(phone) == StripChars(phone, PhoneChars \ (Digits \cup {"+"}))

\* C24: normalize_phone returns the empty string for the empty string;
\* otherwise it keeps only digits and '+', returns that unchanged when it
\* starts with '+', with '+359' in place of a leading '0', or else with '+'
\* in front, so that a result that is not empty starts with '+'; applied to
\* its own result it returns the result.
C24_NormalizePhone ==
    /\ call.op = "normalize_phone" =>
        LET phone == call.args[1]
            kept == DigitsAndPlus(phone)
        IN  /\ \A k \in 1..Len(call.result) : call.result[k] \in Digits \cup {"+"}
            /\ phone = <<>> => call.result = <<>>
            /\ call.result /= <<>> => call.result[1] = "+"
            /\ (kept /= <<>> /\ kept[1] = "+") => call.result = kept
            /\ (kept /= <<>> /\ kept[1] = "0")
                   => call.result = <<"+", "3", "5", "9">> \o Tail(kept)
            /\ (phone /= <<>> /\ (kept = <<>> \/ kept[1] \notin {"+", "0"}))
                   => call.result = <<"+">> \o kept
    /\ call.op = "normalize_phone again" => call.result = call.made

\* The local number 0-8 became +3598 and stayed so when normalized again.
C24_Witness ==
    /\ call.op = "normalize_phone again"
    /\ call.args = <<(<<"0", "-", "8">>)>>
    /\ call.made = <<"+", "3", "5", "9", "8">>
    /\ call.result = <<"+", "3", "5", "9", "8">>

(***************************************************************************)
(* Properties of the date window.                                          *)
(***************************************************************************)
\* C25: the window of N days starting at referenceDate contains d exactly
\* when referenceDate <= d <= referenceDate + N, and for an absent date the
\* answer is false, not an exception.
C25_WindowTotal ==
    call.op = "contains" =>
        LET referenceDate == call.args[1]
            N == call.args[2]
            d == call.args[3]
        IN  IF IsSet(d)
            THEN call.result = <<IF Day(referenceDate) <= Day(d)
                                    /\ Day(d) <= Day(referenceDate) + N
                                 THEN "True" ELSE "False">>
            ELSE call.result = <<"False">>

(***************************************************************************)
(* Properties of what the operations leave alone.                          *)
(***************************************************************************)
\* The step is a deduplication, a sort or a classification query.
OperationStep ==
    \/ pc = "start" /\ pc' \in {"deduped", "sorted"}
    \/ <<ran, days_ahead, due_soon, overdue>>' /= <<ran, days_ahead, due_soon, overdue>>

\* C26: a deduplication, a sort or a classification query leaves its input
\* as it was: the list in memory and the stored rows have the same length,
\* order, elements and field values after the step as before it.
C26_ReadOnly ==
    [][OperationStep => (users' = users /\ table' = table)]_vars

\* The sort returned the two records of its input in the other order.
C26_Witness ==
    /\ pc = "sorted"
    /\ Len(users) = 2
    /\ sorted_users /= users
    /\ sorted_users = <<users[2], users[1]>>

(***************************************************************************)
(* Properties of the reference date.                                       *)
(***************************************************************************)
\* The dates that get_due_soon, get_overdue and the notification service
\* have read in the run.
ReferenceDates ==
    {query_today.get_due_soon, query_today.get_overdue, ns_today} \ {None}

\* C28: get_due_soon, get_overdue and the notification check of a run use
\* one and the same date, also when the system date changes during the run,
\* and no stored row is both in the list of get_due_soon and in the list of
\* get_overdue.
C28_SingleReferenceDate ==
    /\ Cardinality(ReferenceDates) <= 1
    /\ \A r \in Rows(table) : ~(InList(due_soon, r) /\ InList(overdue, r))

(***************************************************************************)
(* Properties of generate_notifications.                                   *)
(***************************************************************************)
\* The positions in df of the rows that have a notification of the type.
NotifiedRows(type) ==
    {call.result[n].row : n \in {m \in 1..Len(call.result) : call.result[m].type = type}}

\* C29: generate_notifications makes a 'due_today' notification for exactly
\* the rows due today and an 'upcoming_notice' notification for exactly the
\* rows whose notice is 5 days after today, and none else; and once the
\* notification check has run over the same rows on the same day, the rows
\* with a notification are the rows the check called send_message for.
C29_GenerateMatchesCheck ==
    call.op = "generate_notifications" =>
        LET df == call.args[1]
            today_ == call.args[2]
        IN  /\ NotifiedRows("due_today")
                   = {k \in 1..Len(df) : df[k].due_day = today_}
            /\ NotifiedRows("upcoming_notice")
                   = {k \in 1..Len(df) : df[k].notice = PlusDays(today_, 5)}
            /\ \A n \in 1..Len(call.result) :
                   call.result[n].type \in {"due_today", "upcoming_notice"}
            /\ (pc = "done" /\ raised = <<>> /\ df = table /\ ns_today = today_)
                   => {df[k] : k \in NotifiedRows("due_today")
                                     \cup NotifiedRows("upcoming_notice")}
                      = {sends[k].user : k \in 1..Len(sends)}

====
